---- MODULE Spec2Model ----
(***************************************************************************)
(* ObservableState (src/src/state/observable-state.ts): a state cell       *)
(* (StateSubject, a BehaviorSubject), the streams derived from it          *)
(* (state$, onlySelectWhen, select, pick), patch, the producer bindings    *)
(* made by connect and re-fired by trigger, and ngOnDestroy.               *)
(*                                                                         *)
(* Execution is single-threaded and every operation of the class runs to   *)
(* completion, so each public operation is one action.  The operations     *)
(* are written as functions from a "world" (a record of the object's       *)
(* fields and of the RxJS subscriptions hanging off them) to the world     *)
(* after the call, because they call each other (connect -> patch ->       *)
(* next -> the subscribers).                                               *)
(*                                                                         *)
(* RxJS is modelled by what its operators do: BehaviorSubject replays its  *)
(* value to a new subscriber, ReplaySubject(1) likewise, distinctUntil-     *)
(* Changed lets a first value through and then compares with the value it  *)
(* let through last, combineLatest emits once every input has a value,     *)
(* switchMap unsubscribes the inner subscription before it makes the next, *)
(* takeUntil ends on a value of its notifier and ignores its completion,   *)
(* and a Subject notifies the observers it had when next was called.       *)
(* Consumers of the streams record what they receive; one of them (slot   *)
(* sRe) also calls patch from its callback.                                *)
(*                                                                         *)
(* Four specifications run the same operations: Spec (every operation,     *)
(* consumers that only receive), SpecBind (the producer bindings alone,    *)
(* over longer runs), SpecReact (the streams with the patching consumer)   *)
(* and SpecHeap (the record objects the cell has held are kept).           *)
(***************************************************************************)
EXTENDS Integers, Sequences, FiniteSets, TLC

VARIABLES
  value,      \* state$$.value: Null or a record T
  destroyed,  \* destroy$$ has emitted and completed
  triggers,   \* the keys of this.triggers (each ReplaySubject holds one value)
  subs,       \* the subscriptions of state$ / onlySelectWhen / select
  got,        \* what each subscriber's callback received during the last operation
  bindings,   \* the pipelines built by connect, in creation order
  obs,        \* per producer: its observer list, in subscription order
  prods,      \* per producer: the value a replaying producer holds
  inputs,     \* live subscriptions of initialize's inputState$
  pushes,     \* state$$.next calls made by the last operation
  lastCall,   \* the last operation: its name, arguments and outcome
  steps,      \* operations performed so far
  s0,         \* the record given to the last initialize
  calls,      \* the patch arguments applied since the last initialize
  connected,  \* the <<key, producer>> pairs connect has been called with
  heard,      \* per pair: the producer's latest value since connect, if any
  seen,       \* per subscriber: which push of the last operation produced
              \* each state it received, in the order received
  heap,       \* the record objects the cell has held, in order of creation
              \* (kept in the runs of SpecHeap)
  ref         \* the object the cell holds: its place in heap, 0 for null

vars == <<value, destroyed, triggers, subs, got, bindings, obs, prods, inputs,
          pushes, lastCall, steps, s0, calls, connected, heard, seen,
          heap, ref>>

----------------------------------------------------------------------------
(* Bounds and input sets *)

MaxSteps == 4
\* The number of operations in a run of the bindings alone (SpecBind).
MaxBindSteps == 6
\* The number of operations in a run with a consumer that patches (SpecReact).
MaxReactSteps == 5
\* The number of operations in a run that keeps the record objects (SpecHeap).
MaxHeapSteps == 5

Keys == {"a", "b", "c"}
KeyOrder == <<"a", "b", "c">>
\* Field values are only ever compared with ===, so two of them show every
\* difference between "same" and "changed".
Vals == {0, 1}
\* What reading a key that the record does not have yields (undefined).
Absent == -1

\* A record T or Partial<T>: each key holds a value or is absent.
Recs == [Keys -> Vals \cup {Absent}]
EmptyRec == [k \in Keys |-> Absent]
\* Object.keys(o), as a set and in order
KeysOf(o) == {k \in Keys : o[k] # Absent}
IsKeyOf(o, k) == o[k] # Absent
ObjectKeys(o) == SelectSeq(KeyOrder, LAMBDA k : IsKeyOf(o, k))

Rec(a, b, c) == [k \in Keys |-> CASE k = "a" -> a [] k = "b" -> b [] k = "c" -> c]

\* The records initialize is called with: all keys, and one without c.
InitArgs == {Rec(0, 0, 0), Rec(1, 1, 1), Rec(0, 0, Absent)}

\* The partials patch is called with: none or one key with either value, and
\* several keys at once.
PatchArgs ==
  {r \in Recs : Cardinality(KeysOf(r)) <= 1}
    \cup {Rec(1, 1, Absent), Rec(1, Absent, 1), Rec(1, 0, 1)}

\* The partials inputState$ emits.
InputArgs == {Rec(1, Absent, Absent), Rec(Absent, 0, 1)}

\* The BehaviorSubject's value: null until initialize.
Null == [set |-> FALSE, rec |-> EmptyRec]
Some(r) == [set |-> TRUE, rec |-> r]

----------------------------------------------------------------------------
(* The streams a consumer can subscribe to.  Each slot is one consumer of  *)
(* one stream; pick(keys) hands out the same stream as select(key).  The   *)
(* consumer in slot sRe calls patch({b: 1}) from its callback; the others  *)
(* only receive.  The subject notifies its observers in SlotOrder: what a  *)
(* consumer that only receives is handed does not depend on its place      *)
(* among such consumers, and runs with sRe subscribe in this order.        *)

Slots == {"sState", "sRe", "sAll", "sAB", "sA"}
SlotOrder == <<"sState", "sRe", "sAll", "sAB", "sA">>

Stream(s) ==
  CASE s = "sState" -> [kind |-> "state",  keys |-> {},         key |-> "a"]
    [] s = "sRe"    -> [kind |-> "state",  keys |-> {},         key |-> "a"]
    [] s = "sAll"   -> [kind |-> "when",   keys |-> Keys,       key |-> "a"]
    [] s = "sAB"    -> [kind |-> "when",   keys |-> {"a", "b"}, key |-> "a"]
    [] s = "sA"     -> [kind |-> "select", keys |-> {"a"},      key |-> "a"]

NoSub == [active |-> FALSE, has |-> FALSE, last |-> EmptyRec]

\* The consumers whose callback patches, and what they patch.
Reacts(s) == s = "sRe"
Passive == {s \in Slots : ~Reacts(s)}
Reaction == Rec(Absent, 1, Absent)

\* The producers handed to connect: a plain Subject and a BehaviorSubject-like
\* one that replays the value it holds to each new subscriber.
Producers == {"hot", "beh"}
Replays(p) == p = "beh"
NoValue == [has |-> FALSE, last |-> Absent]

\* The keys connect is called with.
BindKeys == {"a", "b"}

----------------------------------------------------------------------------
(* The world: the object's fields and the subscriptions hanging off them.  *)

World ==
  [value |-> value, destroyed |-> destroyed, triggers |-> triggers,
   subs |-> subs, got |-> [s \in Slots |-> <<>>], bindings |-> bindings,
   obs |-> obs, prods |-> prods, inputs |-> inputs, pushes |-> 0,
   err |-> "none", unhandled |-> FALSE, cancelled |-> {},
   s0 |-> s0, calls |-> calls, resubs |-> 0, peak |-> 0,
   seen |-> [s \in Slots |-> <<>>], heap |-> heap, ref |-> ref]

\* state$'s distinctUntilChanged comparator
SameState(previous, current) ==
  \A k \in KeysOf(current) : current[k] = previous[k]

\* Variant of SameKeys: state$'s comparator, every key of current compared.
SameKeysOfCurrent(keys, previous, current) ==
  \A k \in KeysOf(current) : current[k] = previous[k]

\* Variant of SameKeys: each key of current compared with itself.
SameKeysSelf(keys, previous, current) ==
  \A k \in keys : current[k] = current[k]

\* onlySelectWhen's distinctUntilChanged comparator
SameKeys(keys, previous, current) ==
  \A k \in keys : current[k] = previous[k]

Same(s, previous, current) ==
  IF Stream(s).kind = "state"
    THEN SameState(previous, current)
    ELSE SameKeys(Stream(s).keys, previous, current)

\* select and pick project the state to the key: map(state => state[key])
Item(s, state) ==
  IF Stream(s).kind = "select" THEN state[Stream(s).key] ELSE state

RECURSIVE Patch(_, _), CallbackPatch(_, _), SubNext(_, _, _), NotifyAll(_, _, _)

\* A notification of the subject: the value pushed (or the null replayed),
\* tagged with the number of the push that produced it.
Pushed(w) == [set |-> w.value.set, rec |-> w.value.rec, ver |-> w.pushes]

\* Variant of Delivered: the pipeline hands on the value it was notified of.
DeliveredPushed(w, note) == note

\* syncState's map(() => this.value): whatever the notification carried, the
\* pipeline hands on the value the cell holds when the notification arrives.
Delivered(w, note) == Pushed(w)

\* The consumer's callback
Consume(w, s) == IF Reacts(s) THEN CallbackPatch(w, Reaction) ELSE w

\* One subscriber's pipeline receiving a notification of the subject:
\* syncState's map(() => this.value), filterAndCastToT, distinctUntilChanged
\* (which always lets the first value through, and remembers a value before
\* handing it on), then the consumer.
SubNext(w, s, note) ==
  LET cur == Delivered(w, note)
      sub == w.subs[s]
  IN  IF ~sub.active \/ ~cur.set THEN w
      ELSE IF sub.has /\ Same(s, sub.last, cur.rec) THEN w
      ELSE Consume([w EXCEPT !.subs[s] = [active |-> TRUE, has |-> TRUE,
                                          last |-> cur.rec],
                             !.got[s] = Append(@, Item(s, cur.rec)),
                             !.seen[s] = Append(@, cur.ver)], s)

NotifyAll(w, ss, note) ==
  IF ss = <<>> THEN w ELSE NotifyAll(SubNext(w, Head(ss), note), Tail(ss), note)

\* Variant of Install: the object the cell holds is overwritten with v and
\* handed to next again (Object.assign(this.state$$.value, ...)).
InstallInPlace(w, v) ==
  IF w.ref = 0
    THEN [w EXCEPT !.value = Some(v), !.pushes = @ + 1,
                   !.heap = Append(@, v), !.ref = Len(w.heap) + 1]
    ELSE [w EXCEPT !.value = Some(v), !.pushes = @ + 1, !.heap[w.ref] = v]

\* The cell takes the object handed to next: the record initialize was
\* called with, or the newState patch built by spreading, in either case an
\* object apart from those the cell held before.
Install(w, v) ==
  [w EXCEPT !.value = Some(v), !.pushes = @ + 1,
            !.heap = Append(@, v), !.ref = Len(w.heap) + 1]

\* state$$.next(v): BehaviorSubject stores v, then notifies the observers.
SubjectNext(w, v) ==
  LET w1 == Install(w, v)
  IN  NotifyAll(w1, SlotOrder, Pushed(w1))

RECURSIVE PushAll(_, _)
PushAll(w, vs) ==
  IF vs = <<>> THEN w ELSE PushAll(SubjectNext(w, Head(vs)), Tail(vs))

\* Variant of MergeKeys: each round spreads the state the loop started from
\* instead of newState, so only the last key of object survives.
MergeKeysStale(newState, object, ks) ==
  IF ks = <<>> THEN newState
  ELSE [newState EXCEPT ![ks[Len(ks)]] = object[ks[Len(ks)]]]

\* patch's loop: newState = { ...newState, [key]: object[key] } for each key
RECURSIVE MergeKeys(_, _, _)
MergeKeys(newState, object, ks) ==
  IF ks = <<>> THEN newState
  ELSE MergeKeys([newState EXCEPT ![Head(ks)] = object[Head(ks)]], object, Tail(ks))

\* Variant of PatchPushes: newState starts from {} instead of the current state.
PatchPushesFromEmpty(cur, object) ==
  << MergeKeys(EmptyRec, object, ObjectKeys(object)) >>

\* Variant of PatchPushes: state$$.next is called inside the loop, once per key.
RECURSIVE PushPerKey(_, _, _)
PushPerKey(newState, object, ks) ==
  IF ks = <<>> THEN <<>>
  ELSE LET n == [newState EXCEPT ![Head(ks)] = object[Head(ks)]]
       IN  <<n>> \o PushPerKey(n, object, Tail(ks))
PatchPushesPerKey(cur, object) ==
  PushPerKey(cur, object, ObjectKeys(object))

\* The states one patch call hands to state$$.next: the merged record, once.
PatchPushes(cur, object) ==
  << MergeKeys(cur, object, ObjectKeys(object)) >>

\* Variant of Patch: the check of state$$.value is missing; spreading null
\* gives {}.
PatchUnguarded(w, object) ==
  PushAll([w EXCEPT !.calls = Append(@, object)],
          PatchPushes(w.value.rec, object))

\* patch(object).  calls records the argument of each call that did not throw.
Patch(w, object) ==
  IF ~w.value.set
    THEN [w EXCEPT !.err = "Uninitialized"]
    ELSE PushAll([w EXCEPT !.calls = Append(@, object)],
                 PatchPushes(w.value.rec, object))

\* A subscribe callback that calls patch: an exception it throws is caught by
\* the Subscriber and reported asynchronously; the subscription lives on.
CallbackPatch(w, object) ==
  LET w1 == Patch(w, object)
  IN  IF w1.err = "none" THEN w1
      ELSE [w1 EXCEPT !.err = "none", !.unhandled = TRUE]

\* get snapshot(): the value, or the error
Snapshot(w) ==
  IF ~w.value.set THEN [w EXCEPT !.err = "Uninitialized"] ELSE w

\* Variant of Initialize: a container that holds a state is not seeded again.
InitializeOnce(w, state, withInput) ==
  IF w.value.set THEN w
  ELSE LET w1 == SubjectNext([w EXCEPT !.s0 = Some(state), !.calls = <<>>], state)
       IN  IF withInput THEN [w1 EXCEPT !.inputs = @ + 1] ELSE w1

\* initialize(state, inputState$?): next(state), then subscribe the input
\* stream (until destroy$$ emits) with a callback that patches.
Initialize(w, state, withInput) ==
  LET w1 == SubjectNext([w EXCEPT !.s0 = Some(state), !.calls = <<>>], state)
  IN  IF withInput THEN [w1 EXCEPT !.inputs = @ + 1] ELSE w1

\* Variant of Subscribe: the cell is a plain Subject and replays nothing.
SubscribeNoReplay(w, s) ==
  [w EXCEPT !.subs[s] = [NoSub EXCEPT !.active = TRUE]]

\* A consumer subscribes to its stream.  takeUntil subscribes to destroy$$
\* first (a completed destroy$$ only completes that inner subscription, which
\* takeUntil ignores), then the BehaviorSubject replays its value down the
\* pipeline.
Subscribe(w, s) ==
  SubNext([w EXCEPT !.subs[s] = [NoSub EXCEPT !.active = TRUE]], s, Pushed(w))

----------------------------------------------------------------------------
(* connect and trigger.  A binding is one pipeline                         *)
(*   combineLatest([trigger, producer]) |> switchMap |> takeUntil          *)
(* with has/latest the value combineLatest holds for the producer, and     *)
(* inner whether switchMap holds a subscription of the producer.           *)

Only(k, v) == [EmptyRec EXCEPT ![k] = v]

IsInnerOf(e, b) == e.b = b /\ e.role = "inner"

\* Variant of SubscribeInner: the inner observable is the producer alone,
\* without startWith(value).
SubscribeInnerNoStart(w, b, v) ==
  LET p  == w.bindings[b].prod
      k  == w.bindings[b].key
      w2 == [w EXCEPT !.obs[p] = Append(@, [b |-> b, role |-> "inner"]),
                      !.bindings[b].inner = TRUE]
  IN  IF Replays(p) /\ w2.prods[p].has
        THEN CallbackPatch(w2, Only(k, w2.prods[p].last))
        ELSE w2

\* switchMap's inner observable, producer.pipe(startWith(value)), being
\* subscribed: value goes to the callback, then the producer is subscribed
\* (and a replaying producer hands over the value it holds).
SubscribeInner(w, b, v) ==
  LET p  == w.bindings[b].prod
      k  == w.bindings[b].key
      w1 == CallbackPatch(w, Only(k, v))
      o  == Append(w1.obs[p], [b |-> b, role |-> "inner"])
      n  == Cardinality({i \in DOMAIN o : IsInnerOf(o[i], b)})
      w2 == [w1 EXCEPT !.obs[p] = o,
                       !.bindings[b].inner = TRUE,
                       !.resubs = @ + 1,
                       !.peak = IF n > @ THEN n ELSE @]
  IN  IF Replays(p) /\ w2.prods[p].has
        THEN CallbackPatch(w2, Only(k, w2.prods[p].last))
        ELSE w2

\* Variant of SwitchMap: the previous inner subscription is kept (mergeMap).
SwitchMapKeep(w, b, v) == SubscribeInner(w, b, v)

\* switchMap receiving [_, value]: the previous inner subscription is
\* unsubscribed, then the new inner observable is subscribed.
SwitchMap(w, b, v) ==
  LET p  == w.bindings[b].prod
      w1 == [w EXCEPT !.obs[p] = SelectSeq(@, LAMBDA e : ~IsInnerOf(e, b)),
                      !.bindings[b].inner = FALSE,
                      !.cancelled = IF w.bindings[b].inner THEN @ \cup {b} ELSE @]
  IN  SubscribeInner(w1, b, v)

\* Variant of CombineProducer: the first value of the producer is kept as the
\* latest one.
CombineProducerFirst(w, b, v) ==
  SwitchMap([w EXCEPT !.bindings[b].has = TRUE,
                      !.bindings[b].latest = IF w.bindings[b].has THEN @ ELSE v], b, v)

\* combineLatest receiving a value of the producer: it holds a trigger value
\* from its subscription on (the ReplaySubject replayed one), so it emits.
CombineProducer(w, b, v) ==
  SwitchMap([w EXCEPT !.bindings[b].has = TRUE, !.bindings[b].latest = v], b, v)

\* Variant of CombineTrigger: a trigger is passed on before the producer has
\* emitted.
CombineTriggerAlways(w, b) == SwitchMap(w, b, w.bindings[b].latest)

\* combineLatest receiving a trigger: it emits once the producer has emitted.
CombineTrigger(w, b) ==
  IF w.bindings[b].has THEN SwitchMap(w, b, w.bindings[b].latest) ELSE w

\* connect's loop body for one key
ConnectKey(w, k, p) ==
  LET b  == Len(w.bindings) + 1
      w1 == [w EXCEPT !.triggers = @ \cup {k}]
      w2 == [w1 EXCEPT
               !.bindings = Append(@, [key |-> k, prod |-> p, has |-> FALSE,
                                       latest |-> Absent, inner |-> FALSE]),
               !.obs[p] = Append(@, [b |-> b, role |-> "cl"])]
  IN  IF Replays(p) /\ w2.prods[p].has
        THEN CombineProducer(w2, b, w2.prods[p].last)
        ELSE w2

RECURSIVE ConnectKeys(_, _, _)
ConnectKeys(w, object, ks) ==
  IF ks = <<>> THEN w
  ELSE ConnectKeys(ConnectKey(w, Head(ks), object[Head(ks)]), object, Tail(ks))

\* connect(object); object maps each key it has to a producer
Binds(pa, pb) == [k \in BindKeys |-> IF k = "a" THEN pa ELSE pb]
ConnectArgs ==
  {Binds("none", "none"), Binds("hot", "none"), Binds("beh", "none"),
   Binds("none", "hot"), Binds("hot", "beh")}
Connect(w, object) ==
  ConnectKeys(w, object,
              SelectSeq(KeyOrder, LAMBDA k : k \in BindKeys /\ object[k] # "none"))

RECURSIVE TriggerAll(_, _, _)
TriggerAll(w, k, b) ==
  IF b > Len(w.bindings) THEN w
  ELSE TriggerAll(IF w.bindings[b].key = k THEN CombineTrigger(w, b) ELSE w, k, b + 1)

\* Variant of Trigger: the check of this.triggers[key] is missing.
TriggerUnchecked(w, k) == TriggerAll(w, k, 1)

\* trigger(key)
Trigger(w, k) ==
  IF k \notin w.triggers
    THEN [w EXCEPT !.err = "NoTrigger"]
    ELSE TriggerAll(w, k, 1)

\* Variant of ObserverNext: an unsubscribed inner subscription still delivers.
ObserverNextStale(w, e, v) ==
  IF e.role = "cl" THEN CombineProducer(w, e.b, v)
  ELSE CallbackPatch(w, Only(w.bindings[e.b].key, v))

\* One observer of a producer receiving v.  An inner subscription that was
\* unsubscribed while the producer was notifying is closed and drops it.
ObserverNext(w, e, v) ==
  IF e.role = "cl" THEN CombineProducer(w, e.b, v)
  ELSE IF e.b \in w.cancelled THEN w
  ELSE CallbackPatch(w, Only(w.bindings[e.b].key, v))

RECURSIVE ObserversNext(_, _, _)
ObserversNext(w, es, v) ==
  IF es = <<>> THEN w ELSE ObserversNext(ObserverNext(w, Head(es), v), Tail(es), v)

\* The producer p emits v: it notifies the observers it had when it began.
Emit(w, p, v) ==
  LET w1 == IF Replays(p) THEN [w EXCEPT !.prods[p] = [has |-> TRUE, last |-> v]] ELSE w
  IN  ObserversNext(w1, w.obs[p], v)

RECURSIVE InputNext(_, _, _)
InputNext(w, object, n) ==
  IF n = 0 THEN w ELSE InputNext(CallbackPatch(w, object), object, n - 1)

\* inputState$ emits object: each subscription's callback patches.
EmitInput(w, object) == InputNext(w, object, w.inputs)

\* Variant of Destroy: the cell is emptied as well (state$$.next(null)).
DestroyAndClear(w) ==
  IF w.destroyed THEN w
  ELSE [w EXCEPT !.destroyed = TRUE,
                 !.value = Null,
                 !.subs = [s \in Slots |-> NoSub],
                 !.bindings = <<>>,
                 !.obs = [p \in Producers |-> <<>>],
                 !.inputs = 0]

\* ngOnDestroy(): destroy$$.next() fires every takeUntil subscribed so far;
\* once destroy$$ has completed, next() does nothing.
Destroy(w) ==
  IF w.destroyed THEN w
  ELSE [w EXCEPT !.destroyed = TRUE,
                 !.subs = [s \in Slots |-> NoSub],
                 !.bindings = <<>>,
                 !.obs = [p \in Producers |-> <<>>],
                 !.inputs = 0]

----------------------------------------------------------------------------
(* The state machine *)

NoCall == [op |-> "new", obj |-> EmptyRec, key |-> "a", prod |-> "hot",
           val |-> Absent, err |-> "none", unhandled |-> FALSE,
           resubs |-> 0, peak |-> 0, cancelled |-> 0]

Init ==
  /\ value = Null
  /\ destroyed = FALSE
  /\ triggers = {}
  /\ subs = [s \in Slots |-> NoSub]
  /\ got = [s \in Slots |-> <<>>]
  /\ bindings = <<>>
  /\ obs = [p \in Producers |-> <<>>]
  /\ prods = [p \in Producers |-> NoValue]
  /\ inputs = 0
  /\ pushes = 0
  /\ lastCall = NoCall
  /\ steps = 0
  /\ s0 = Null
  /\ calls = <<>>
  /\ connected = {}
  /\ heard = [kp \in BindKeys \X Producers |-> Absent]
  /\ seen = [s \in Slots |-> <<>>]
  /\ heap = <<>>
  /\ ref = 0

\* The call returns: the world it leaves becomes the state.  resubs counts
\* the inner subscriptions the call made, cancelled the bindings whose inner
\* subscription it unsubscribed, and peak is the largest number of inner
\* subscriptions one binding held at once during the call.
Returns(w, call) ==
  /\ steps' = steps + 1
  /\ value' = w.value
  /\ destroyed' = w.destroyed
  /\ triggers' = w.triggers
  /\ subs' = w.subs
  /\ got' = w.got
  /\ bindings' = w.bindings
  /\ obs' = w.obs
  /\ prods' = w.prods
  /\ inputs' = w.inputs
  /\ pushes' = w.pushes
  /\ s0' = w.s0
  /\ calls' = w.calls
  /\ seen' = w.seen
  /\ lastCall' = [call EXCEPT !.err = w.err, !.unhandled = w.unhandled,
                              !.resubs = w.resubs, !.peak = w.peak,
                              !.cancelled = Cardinality(w.cancelled)]

Return(w, call) ==
  /\ steps < MaxSteps
  /\ Returns(w, call)
  /\ UNCHANGED <<heap, ref>>

\* The pairs a connect(object) call binds.
BoundPairs(object) ==
  {<<k, object[k]>> : k \in {x \in BindKeys : object[x] # "none"}}

\* A replaying producer hands the value it holds to the new binding.
HeardAtConnect(object) ==
  [kp \in BindKeys \X Producers |->
     IF kp \in BoundPairs(object) /\ Replays(kp[2]) /\ prods[kp[2]].has
       THEN prods[kp[2]].last ELSE heard[kp]]

\* The producer p emits v to the bindings made so far.
HeardAtEmit(p, v) ==
  [kp \in BindKeys \X Producers |->
     IF kp \in connected /\ kp[2] = p THEN v ELSE heard[kp]]

DoInitialize ==
  \E state \in InitArgs, withInput \in BOOLEAN :
    /\ Return(Initialize(World, state, withInput),
              [NoCall EXCEPT !.op = "initialize", !.obj = state])
    /\ UNCHANGED <<connected, heard>>

DoPatch ==
  \E object \in PatchArgs :
    /\ Return(Patch(World, object), [NoCall EXCEPT !.op = "patch", !.obj = object])
    /\ UNCHANGED <<connected, heard>>

DoSnapshot ==
  /\ Return(Snapshot(World), [NoCall EXCEPT !.op = "snapshot"])
  /\ UNCHANGED <<connected, heard>>

DoSubscribe ==
  \E s \in Passive :
    /\ ~subs[s].active
    /\ Return(Subscribe(World, s), [NoCall EXCEPT !.op = "subscribe", !.key = s])
    /\ UNCHANGED <<connected, heard>>

DoConnect ==
  \E object \in ConnectArgs :
    /\ Return(Connect(World, object), [NoCall EXCEPT !.op = "connect"])
    /\ connected' = connected \cup BoundPairs(object)
    /\ heard' = HeardAtConnect(object)

DoTrigger ==
  \E k \in Keys :
    /\ Return(Trigger(World, k), [NoCall EXCEPT !.op = "trigger", !.key = k])
    /\ UNCHANGED <<connected, heard>>

DoEmit ==
  \E p \in Producers, v \in Vals :
    /\ Return(Emit(World, p, v), [NoCall EXCEPT !.op = "emit", !.prod = p, !.val = v])
    /\ connected' = connected
    /\ heard' = HeardAtEmit(p, v)

DoEmitInput ==
  \E object \in InputArgs :
    /\ inputs > 0
    /\ Return(EmitInput(World, object), [NoCall EXCEPT !.op = "input", !.obj = object])
    /\ UNCHANGED <<connected, heard>>

DoDestroy ==
  /\ Return(Destroy(World), [NoCall EXCEPT !.op = "destroy"])
  /\ UNCHANGED <<connected, heard>>

Next ==
  \/ DoInitialize
  \/ DoPatch
  \/ DoSnapshot
  \/ DoSubscribe
  \/ DoConnect
  \/ DoTrigger
  \/ DoEmit
  \/ DoEmitInput
  \/ DoDestroy

Spec == Init /\ [][Next]_vars

----------------------------------------------------------------------------
(* The bindings alone: the container and its producers, without consumers  *)
(* of the streams and without an input stream, over longer runs.           *)

BindInitArgs == {Rec(0, 0, 0)}
BindPatchArgs == {Only("a", 0), Only("a", 1)}
BindConnectArgs ==
  {Binds("hot", "none"), Binds("beh", "none"), Binds("hot", "beh")}

BindReturn(w, call) ==
  /\ steps < MaxBindSteps
  /\ Returns(w, call)
  /\ UNCHANGED <<heap, ref>>

BindInitialize ==
  \E state \in BindInitArgs :
    /\ BindReturn(Initialize(World, state, FALSE),
                   [NoCall EXCEPT !.op = "initialize", !.obj = state])
    /\ UNCHANGED <<connected, heard>>

BindPatch ==
  \E object \in BindPatchArgs :
    /\ BindReturn(Patch(World, object),
                  [NoCall EXCEPT !.op = "patch", !.obj = object])
    /\ UNCHANGED <<connected, heard>>

BindConnect ==
  \E object \in BindConnectArgs :
    /\ BindReturn(Connect(World, object), [NoCall EXCEPT !.op = "connect"])
    /\ connected' = connected \cup BoundPairs(object)
    /\ heard' = HeardAtConnect(object)

BindTrigger ==
  \E k \in BindKeys :
    /\ BindReturn(Trigger(World, k), [NoCall EXCEPT !.op = "trigger", !.key = k])
    /\ UNCHANGED <<connected, heard>>

BindEmit ==
  \E p \in Producers, v \in Vals :
    /\ BindReturn(Emit(World, p, v),
                  [NoCall EXCEPT !.op = "emit", !.prod = p, !.val = v])
    /\ connected' = connected
    /\ heard' = HeardAtEmit(p, v)

BindDestroy ==
  /\ BindReturn(Destroy(World), [NoCall EXCEPT !.op = "destroy"])
  /\ UNCHANGED <<connected, heard>>

BindNext ==
  \/ BindInitialize
  \/ BindPatch
  \/ BindConnect
  \/ BindTrigger
  \/ BindEmit
  \/ BindDestroy

SpecBind == Init /\ [][BindNext]_vars

----------------------------------------------------------------------------
(* The streams with a consumer that patches from its callback.  Consumers  *)
(* subscribe in SlotOrder, so that the subject's observer list is in that  *)
(* order.                                                                  *)

ReactInitArgs == {Rec(0, 0, 0), Rec(1, 1, 1)}
ReactPatchArgs == {Only("a", 1), Only("b", 0), Only("c", 1), Rec(1, 0, Absent)}
ReactSlots == {"sState", "sRe", "sAll", "sA"}
Position(s) == CHOOSE i \in DOMAIN SlotOrder : SlotOrder[i] = s

ReactReturn(w, call) ==
  /\ steps < MaxReactSteps
  /\ Returns(w, call)
  /\ UNCHANGED <<heap, ref>>

ReactInitialize ==
  \E state \in ReactInitArgs :
    /\ ReactReturn(Initialize(World, state, FALSE),
                    [NoCall EXCEPT !.op = "initialize", !.obj = state])
    /\ UNCHANGED <<connected, heard>>

ReactPatch ==
  \E object \in ReactPatchArgs :
    /\ ReactReturn(Patch(World, object),
                  [NoCall EXCEPT !.op = "patch", !.obj = object])
    /\ UNCHANGED <<connected, heard>>

ReactSubscribe ==
  \E s \in ReactSlots :
    /\ \A t \in Slots : subs[t].active => Position(t) < Position(s)
    /\ ReactReturn(Subscribe(World, s),
                   [NoCall EXCEPT !.op = "subscribe", !.key = s])
    /\ UNCHANGED <<connected, heard>>

ReactDestroy ==
  /\ ReactReturn(Destroy(World), [NoCall EXCEPT !.op = "destroy"])
  /\ UNCHANGED <<connected, heard>>

ReactNext ==
  \/ ReactInitialize
  \/ ReactPatch
  \/ ReactSubscribe
  \/ ReactDestroy

SpecReact == Init /\ [][ReactNext]_vars

----------------------------------------------------------------------------
(* The container with the record objects kept: every object the cell has   *)
(* held stays in heap, so that a later change of its content would show.   *)

HeapInitArgs == {Rec(0, 0, 0), Rec(1, 1, 1)}
HeapPatchArgs == {Only("a", 0), Only("a", 1), Only("b", 1)}
HeapConnectArgs == {Binds("hot", "none")}

HeapReturn(w, call) ==
  /\ steps < MaxHeapSteps
  /\ Returns(w, call)
  /\ heap' = w.heap
  /\ ref' = w.ref

HeapInitialize ==
  \E state \in HeapInitArgs, withInput \in BOOLEAN :
    /\ HeapReturn(Initialize(World, state, withInput),
                  [NoCall EXCEPT !.op = "initialize", !.obj = state])
    /\ UNCHANGED <<connected, heard>>

HeapPatch ==
  \E object \in HeapPatchArgs :
    /\ HeapReturn(Patch(World, object), [NoCall EXCEPT !.op = "patch", !.obj = object])
    /\ UNCHANGED <<connected, heard>>

HeapSnapshot ==
  /\ HeapReturn(Snapshot(World), [NoCall EXCEPT !.op = "snapshot"])
  /\ UNCHANGED <<connected, heard>>

HeapSubscribe ==
  /\ ~subs["sState"].active
  /\ HeapReturn(Subscribe(World, "sState"),
                [NoCall EXCEPT !.op = "subscribe", !.key = "sState"])
  /\ UNCHANGED <<connected, heard>>

HeapConnect ==
  \E object \in HeapConnectArgs :
    /\ HeapReturn(Connect(World, object), [NoCall EXCEPT !.op = "connect"])
    /\ connected' = connected \cup BoundPairs(object)
    /\ heard' = HeardAtConnect(object)

HeapTrigger ==
  /\ HeapReturn(Trigger(World, "a"), [NoCall EXCEPT !.op = "trigger", !.key = "a"])
  /\ UNCHANGED <<connected, heard>>

HeapEmit ==
  \E v \in Vals :
    /\ HeapReturn(Emit(World, "hot", v),
                  [NoCall EXCEPT !.op = "emit", !.prod = "hot", !.val = v])
    /\ connected' = connected
    /\ heard' = HeardAtEmit("hot", v)

HeapEmitInput ==
  \E object \in InputArgs :
    /\ inputs > 0
    /\ HeapReturn(EmitInput(World, object), [NoCall EXCEPT !.op = "input", !.obj = object])
    /\ UNCHANGED <<connected, heard>>

HeapDestroy ==
  /\ HeapReturn(Destroy(World), [NoCall EXCEPT !.op = "destroy"])
  /\ UNCHANGED <<connected, heard>>

HeapNext ==
  \/ HeapInitialize
  \/ HeapPatch
  \/ HeapSnapshot
  \/ HeapSubscribe
  \/ HeapConnect
  \/ HeapTrigger
  \/ HeapEmit
  \/ HeapEmitInput
  \/ HeapDestroy

SpecHeap == Init /\ [][HeapNext]_vars

----------------------------------------------------------------------------
(* Properties *)

\* The field-wise merge of a partial into a record, as the specification
\* defines it: a field named by the partial takes the partial's value.
FieldMerge(r, partial) ==
  [k \in Keys |-> IF IsKeyOf(partial, k) THEN partial[k] ELSE r[k]]

RECURSIVE FoldMerge(_, _)
FoldMerge(r, partials) ==
  IF partials = <<>> THEN r
  ELSE FoldMerge(FieldMerge(r, Head(partials)), Tail(partials))

\* The value of the last partial in the sequence that names k, or r[k].
LastNamed(r, partials, k) ==
  LET naming == {i \in 1..Len(partials) : IsKeyOf(partials[i], k)}
  IN  IF naming = {} THEN r[k]
      ELSE partials[CHOOSE i \in naming : \A j \in naming : j <= i][k]

\* C1: after initialize(s0) and the patch calls p1..pn (made directly or by a
\* producer or input callback), snapshot is the left fold of the field-wise
\* merges of p1..pn over s0: each field holds the value of the last patch that
\* named it, or its s0 value.
C1_SnapshotIsFoldOfPatches ==
  s0.set =>
    /\ value = Some(FoldMerge(s0.rec, calls))
    /\ \A k \in Keys : value.rec[k] = LastNamed(s0.rec, calls, k)

\* Three patches after initialize({a:0,b:0,c:0}): a is named twice with
\* different values, b once, c never.
C1_Witness ==
  /\ s0 = Some(Rec(0, 0, 0))
  /\ calls = <<Rec(1, Absent, Absent), Rec(Absent, 1, Absent), Rec(0, Absent, Absent)>>
  /\ value = Some(Rec(0, 1, 0))

\* C2: a patch(partial) call on an initialized container leaves every field
\* that is not a key of partial as it was.
C2_PatchKeepsOtherFields ==
  [][(lastCall'.op = "patch" /\ value.set) =>
       /\ value'.set
       /\ \A k \in Keys \ KeysOf(lastCall'.obj) : value'.rec[k] = value.rec[k]]_vars

\* patch({a:0}) has run and b and c still hold the 1 they were given before.
C2_Witness ==
  /\ lastCall.op = "patch"
  /\ lastCall.err = "none"
  /\ lastCall.obj = Rec(0, Absent, Absent)
  /\ value = Some(Rec(0, 1, 1))

\* C3: one patch(partial) call pushes exactly one state into the cell, and a
\* subscriber receives during the call nothing, or once the state with all the
\* fields of partial applied.
C3_PatchPushesOnce ==
  [][(lastCall'.op = "patch" /\ lastCall'.err = "none") =>
       /\ pushes' = 1
       /\ value' = Some(FieldMerge(value.rec, lastCall'.obj))
       /\ \A s \in Slots :
            \/ got'[s] = <<>>
            \/ got'[s] = << Item(s, FieldMerge(value.rec, lastCall'.obj)) >>]_vars

\* patch({a:1,b:0,c:1}) on {a:0,b:0,c:0} changed two fields; the subscriber of
\* state$ received one state.
C3_Witness ==
  /\ lastCall.op = "patch"
  /\ lastCall.obj = Rec(1, 0, 1)
  /\ s0 = Some(Rec(0, 0, 0))
  /\ calls = << Rec(1, 0, 1) >>
  /\ pushes = 1
  /\ got["sState"] = << Rec(1, 0, 1) >>

\* C4: a subscriber of selectWhenAny(keys) that has received a state receives,
\* during a later patch, the full new state exactly when a field in keys
\* differs from the state it received last, and nothing when the patch left the
\* fields in keys as they were.
C4_WhenAnyEmitsOnKeyChange ==
  [][(lastCall'.op = "patch" /\ lastCall'.err = "none") =>
       \A s \in Slots :
         (Stream(s).kind = "when" /\ subs[s].active /\ subs[s].has) =>
           /\ got'[s] =
                IF \E k \in Stream(s).keys : value'.rec[k] # subs[s].last[k]
                  THEN << value'.rec >> ELSE <<>>
           /\ (\A k \in Stream(s).keys : value'.rec[k] = value.rec[k])
                => got'[s] = <<>>]_vars

\* patch({c:1}) changed c: the subscriber of state$ received the new state,
\* the subscriber of selectWhenAny([a,b]), which holds an earlier state, nothing.
C4_Witness ==
  /\ lastCall.op = "patch"
  /\ lastCall.obj = Rec(Absent, Absent, 1)
  /\ subs["sAB"].active /\ subs["sAB"].has
  /\ subs["sAB"].last["c"] = 0
  /\ got["sAB"] = <<>>
  /\ got["sState"] = << Rec(0, 0, 1) >>

\* C5: during a patch, a subscriber of select(a) that has received a value
\* receives the new value of a once if it differs from the value a had before
\* the patch, and nothing if it is the same value: what it receives over a
\* sequence of patches is the successive values of a with repeats collapsed.
C5_SelectEmitsOncePerChange ==
  [][(lastCall'.op = "patch" /\ lastCall'.err = "none") =>
       \A s \in Slots :
         (Stream(s).kind = "select" /\ subs[s].active /\ subs[s].has) =>
           got'[s] =
             IF value'.rec[Stream(s).key] # value.rec[Stream(s).key]
               THEN << value'.rec[Stream(s).key] >> ELSE <<>>]_vars

\* patch({a:1}) twice: the second call delivers nothing to select(a).
C5_Witness ==
  /\ lastCall.op = "patch"
  /\ s0 = Some(Rec(0, 0, 0))
  /\ calls = << Rec(1, Absent, Absent), Rec(1, Absent, Absent) >>
  /\ subs["sA"].active /\ subs["sA"].has
  /\ got["sA"] = <<>>

\* C6: a consumer that subscribes to an initialized container receives the
\* current state (or the selected field) during subscribe; one that subscribes
\* to an uninitialized container receives nothing until initialize, and then
\* the state given to initialize.
C6_SubscriberGetsInitialValue ==
  [][/\ lastCall'.op = "subscribe" =>
          got'[lastCall'.key] =
            IF value.set THEN << Item(lastCall'.key, value.rec) >> ELSE <<>>
     /\ ~value'.set => \A s \in Slots : got'[s] = <<>>
     /\ (lastCall'.op = "initialize" /\ ~value.set) =>
          \A s \in Slots :
            subs[s].active => got'[s] = << Item(s, lastCall'.obj) >>]_vars

\* select(a) was subscribed before initialize({a:1,b:1,c:1}), which delivered 1.
C6_Witness ==
  /\ steps = 2
  /\ lastCall.op = "initialize"
  /\ lastCall.obj = Rec(1, 1, 1)
  /\ got["sA"] = << 1 >>

\* C7: once ngOnDestroy has run, no subscriber of state, selectWhenAny, select
\* or pick receives an emission, whenever its subscription was created.
C7_NoEmissionAfterDestroy ==
  destroyed => \A s \in Slots : got[s] = <<>>

\* C8: before any initialize call, snapshot and patch fail with the
\* Uninitialized error and change nothing: the state stays uninitialized and
\* no subscriber receives an emission.
C8_UninitializedFailsWithoutEffect ==
  [][(~s0.set /\ lastCall'.op \in {"snapshot", "patch"}) =>
       /\ lastCall'.err = "Uninitialized"
       /\ value = Null /\ value' = Null
       /\ pushes' = 0
       /\ \A s \in Slots : got'[s] = <<>>
       /\ UNCHANGED <<subs, destroyed, triggers, bindings, obs, prods, inputs,
                      s0, calls>>]_vars

\* patch failed on the uninitialized container while a consumer of state$ was
\* subscribed.
C8_Witness ==
  /\ lastCall.op = "patch"
  /\ lastCall.err = "Uninitialized"
  /\ lastCall.obj = Rec(1, 1, Absent)
  /\ subs["sState"].active
  /\ value = Null

\* The keys connect has been called with.
ConnectedKeys == {kp[1] : kp \in connected}

\* C9: the trigger registry has an entry for f exactly when connect has been
\* called with f as a key, and entries are never removed; trigger(f) fails
\* with NoTriggerRegistered exactly when there is no entry for f, and a failing
\* trigger leaves the state, the registry and the subscriptions unchanged.
C9_TriggerRegistry ==
  /\ triggers = ConnectedKeys
  /\ [][/\ triggers' = {kp[1] : kp \in connected'}
        /\ triggers \subseteq triggers'
        /\ lastCall'.op = "trigger" =>
             /\ lastCall'.err = "NoTrigger" <=> lastCall'.key \notin ConnectedKeys
             /\ lastCall'.err \in {"NoTrigger", "none"}
             /\ lastCall'.err = "NoTrigger" =>
                  /\ pushes' = 0
                  /\ \A s \in Slots : got'[s] = <<>>
                  /\ UNCHANGED <<value, subs, destroyed, triggers, bindings, obs,
                                 prods, inputs, s0, calls>>]_vars

\* trigger(b) failed although a is registered.
C9_Witness ==
  /\ lastCall.op = "trigger"
  /\ lastCall.key = "b"
  /\ lastCall.err = "NoTrigger"
  /\ triggers = {"a"}

\* C10: on an initialized, undisposed container, a value v emitted by a
\* producer is applied as patch({x: v}) for each field x connected to it:
\* after the delivery snapshot.x is v and every other field is as it was.
C10_ProducerValueIsPatched ==
  [][(lastCall'.op = "emit" /\ value.set /\ ~destroyed) =>
       /\ ~lastCall'.unhandled
       /\ value'.set
       /\ \A k \in Keys :
            value'.rec[k] =
              IF <<k, lastCall'.prod>> \in connected
                THEN lastCall'.val ELSE value.rec[k]]_vars

\* After initialize({a:0,b:0,c:0}) and connect({a: hot}), hot emitted 1.
C10_Witness ==
  /\ lastCall.op = "emit"
  /\ lastCall.prod = "hot"
  /\ lastCall.val = 1
  /\ connected = {<<"a", "hot">>}
  /\ ~destroyed
  /\ s0 = Some(Rec(0, 0, 0))
  /\ value = Some(Rec(1, 0, 0))

\* C12: once initialize has been called the state is never uninitialized
\* again, whatever is called afterwards: the cell holds a record and snapshot
\* does not fail.
C12_StaysInitialized ==
  /\ [](s0.set => value.set)
  /\ []((s0.set /\ lastCall.op = "snapshot") => lastCall.err = "none")
  /\ [][value.set => value'.set]_vars

\* snapshot succeeded on an initialized container after ngOnDestroy.
C12_Witness ==
  /\ lastCall.op = "snapshot"
  /\ lastCall.err = "none"
  /\ destroyed
  /\ value.set

\* C15: initialize can be called any number of times and the last call wins:
\* when initialize(s) returns, snapshot is s whatever was initialized and
\* patched before, and the call does not fail.
C15_InitializeLastWins ==
  lastCall.op = "initialize" =>
    /\ lastCall.err = "none"
    /\ value = Some(lastCall.obj)
    /\ s0 = Some(lastCall.obj)
    /\ calls = <<>>

\* A second initialize, with {a:0,b:0}: the subscriber of state$ still holds
\* the {a:0,b:0,c:0} of the first one.
C15_Witness ==
  /\ lastCall.op = "initialize"
  /\ value = Some(Rec(0, 0, Absent))
  /\ subs["sState"].has
  /\ subs["sState"].last = Rec(0, 0, 0)

\* C16: after ngOnDestroy, a value emitted by initialize's input stream or by
\* a producer bound through connect does not change snapshot, whether the
\* binding was made before or after ngOnDestroy.
C16_NoProducerEffectAfterDestroy ==
  [][(destroyed /\ lastCall'.op \in {"emit", "input"}) => value' = value]_vars

\* C14: state$ behaves as onlySelectWhen(all keys): once both are subscribed,
\* every initialize, patch or producer value delivers the same states to the
\* subscriber of state$ and to the subscriber of onlySelectWhen(["a","b","c"]),
\* also when a re-initialize drops a field the previous state had.
C14_StateIsWhenAllKeys ==
  (lastCall.op # "subscribe" /\ subs["sState"].active /\ subs["sAll"].active)
    => got["sState"] = got["sAll"]

\* The live bindings of key k, and those subscribed to producer p.
BindingsOf(k) == {b \in 1..Len(bindings) : bindings[b].key = k}
BindingsOn(p) == {b \in 1..Len(bindings) : bindings[b].prod = p}
\* The inner (forwarding) subscriptions binding b holds on its producer.
InnerCount(b) ==
  LET o == obs[bindings[b].prod]
  IN  Cardinality({i \in DOMAIN o : IsInnerOf(o[i], b)})
\* The producers bound to k that have emitted since they were connected.
HeardOf(k) ==
  {p \in Producers : <<k, p>> \in connected /\ heard[<<k, p>>] # Absent}

\* C11: on an initialized, undisposed container, when field x is connected to
\* one producer that has emitted since connect, trigger(x) leaves the
\* producer's latest value in snapshot.x (and the other fields as they were),
\* whatever x held before the trigger.
C11_TriggerReplaysLatest ==
  [][(lastCall'.op = "trigger" /\ ~destroyed /\ value.set) =>
       LET x  == lastCall'.key
           ps == {p \in Producers : <<x, p>> \in connected}
       IN  \A p \in ps :
             (ps = {p} /\ heard[<<x, p>>] # Absent) =>
               /\ lastCall'.err = "none"
               /\ value' = Some([value.rec EXCEPT ![x] = heard[<<x, p>>]])]_vars

\* initialize; connect({a: hot}); hot emits 1; patch({a: 0}); trigger("a")
\* brings a back to 1.
C11_Witness ==
  /\ lastCall.op = "trigger"
  /\ lastCall.key = "a"
  /\ ~destroyed
  /\ connected = {<<"a", "hot">>}
  /\ heard[<<"a", "hot">>] = 1
  /\ calls = <<Only("a", 1), Only("a", 0), Only("a", 1)>>
  /\ value.rec["a"] = 1

\* C17: a binding holds at most one forwarding (inner) subscription on its
\* producer at any time, during an operation as well; a producer value reaches
\* the state through the current subscription only: each binding patches it
\* once (twice for a replaying producer, whose new subscription replays it),
\* never once more through a subscription that was discarded.
C17_OneForwardingSubscription ==
  /\ [](\A b \in 1..Len(bindings) :
           /\ InnerCount(b) <= 1
           /\ bindings[b].inner <=> InnerCount(b) = 1)
  /\ [](lastCall.peak <= 1)
  /\ [][(lastCall'.op = "emit" /\ value.set) =>
          Len(calls') = Len(calls)
             + Cardinality(BindingsOn(lastCall'.prod))
                 * (IF Replays(lastCall'.prod) THEN 2 ELSE 1)]_vars

\* A producer value that replaced the inner subscriptions of two bindings.
C17_Witness ==
  /\ lastCall.op = "emit"
  /\ lastCall.cancelled = 2
  /\ lastCall.resubs = 2
  /\ value.set

C20_OnePatchPerProducerValue ==
  [][(/\ lastCall'.op = "emit"
      /\ ~Replays(lastCall'.prod)
      /\ value.set
      /\ ~destroyed
      /\ Len(bindings) = 1
      /\ bindings[1].prod = lastCall'.prod) =>
        /\ calls' = Append(calls, Only(bindings[1].key, lastCall'.val))
        /\ pushes' = 1
        /\ lastCall'.resubs = 1
        /\ ~lastCall'.unhandled]_vars

\* The producer's second value: the forwarding subscription made for the
\* first one was in its observer list and was unsubscribed.
C20_Witness ==
  /\ lastCall.op = "emit"
  /\ lastCall.prod = "hot"
  /\ lastCall.cancelled = 1
  /\ ~destroyed
  /\ Len(bindings) = 1
  /\ pushes = 1
  /\ calls = <<Only("a", 0), Only("a", 1)>>

\* C13: every subscriber receives states in the order their patches were
\* applied: within an operation no subscriber is handed the state of an
\* earlier push after the state of a later one, also when a consumer's
\* callback patches while the subject is still notifying the others.
C13_DeliveryInPatchOrder ==
  \A s \in Slots :
    \A i, j \in DOMAIN seen[s] : i < j => seen[s][i] <= seen[s][j]

\* patch({a: 1, b: 0}) on {a:0,b:1,c:0}: sState, ahead of the patching consumer,
\* received the patched state and then the consumer's; sAll, behind it,
\* received the consumer's only, each notification finding the cell already
\* at the last push.
C13_Witness ==
  /\ lastCall.op = "patch"
  /\ subs["sRe"].active
  /\ pushes = 3
  /\ seen["sState"] = <<1, 2>>
  /\ got["sState"] = <<Rec(1, 0, 0), Rec(1, 1, 0)>>
  /\ seen["sAll"] = <<3>>
  /\ got["sAll"] = <<Rec(1, 1, 0)>>

\* C19: state records are never changed in place: every record object the
\* cell has held (the one passed to initialize, those returned by snapshot or
\* handed to subscribers) keeps its field values through every later
\* operation, the cell's value is the content of the object it holds, and
\* each successful patch installs an object the cell did not hold before.
C19_RecordsAreNotMutated ==
  /\ [][\A i \in DOMAIN heap : i \in DOMAIN heap' /\ heap'[i] = heap[i]]_vars
  /\ [](IF value.set THEN ref \in DOMAIN heap /\ heap[ref] = value.rec
                     ELSE ref = 0)
  /\ [][(lastCall'.op = "patch" /\ lastCall'.err = "none") =>
          (ref' \notin DOMAIN heap /\ ref' = Len(heap'))]_vars

\* After initialize({a:0,b:0,c:0}) and two patches the initial record and
\* the record the first patch installed, which a subscriber of state$
\* received, are as they were; the cell holds a third one.
C19_Witness ==
  /\ lastCall.op = "patch"
  /\ s0 = Some(Rec(0, 0, 0))
  /\ heap = <<Rec(0, 0, 0), Rec(1, 0, 0), Rec(1, 1, 0)>>
  /\ ref = 3
  /\ subs["sState"].has

====
